---- MODULE Spec2Model ----
(***************************************************************************)
(* Model of the TimeEntry lifecycle of go-toggl (src/main.go): the local   *)
(* mutators of a TimeEntry (SetDuration, SetStartTime, SetStopTime,        *)
(* AddTag, RemoveTag) and the gateway operations that reconcile an entry   *)
(* with the remote service (ContinueTimeEntry, UnstopTimeEntry and the     *)
(* UpdateTimeEntry / DeleteTimeEntry calls they make).                      *)
(*                                                                         *)
(* Instants are integers counting ticks; a second holds TicksPerSecond     *)
(* ticks, so an instant need not lie on a whole second (time.Time holds    *)
(* nanoseconds).  An optional instant, a pointer to a time.Time, is <<>>   *)
(* when nil and <<t>> when it points at the instant t.                     *)
(***************************************************************************)
EXTENDS Integers, Sequences, FiniteSets, TLC

(***************************************************************************)
(* Bounds of the model.                                                    *)
(***************************************************************************)
\* ticks in one second (time.Second is 10^9 nanoseconds)
TicksPerSecond == 2
\* seconds in one local calendar day (24 hours in the program)
SecondsPerDay == 2
\* the offset of the local time zone from UTC, in seconds
ZoneOffset == 1
\* instants passed to the mutators range over 0 .. MaxInstant ticks
MaxInstant == 2
\* durations passed to SetDuration range over -MaxDuration .. MaxDuration
MaxDuration == 1
\* the wall clock stops at MaxClock ticks
MaxClock == 4
\* the remote service holds entries under the ids 1 .. MaxID
MaxID == 2
\* the tag names a sequence of AddTag and RemoveTag calls draws from
MaxTags == 3
\* the mutator calls followed on an entry and its copy
MaxCalls == 2
\* the unused capacity the tags of an entry may come with
MaxSpare == 1

Instants == 0 .. MaxInstant
Durations == (-MaxDuration) .. MaxDuration
\* the model follows the wall clock over its last tick
MinClock == MaxClock - 1
Clock == MinClock .. MaxClock
\* the stop instants the model follows (the reach of one SetDuration)
StopRange == (-(MaxDuration * TicksPerSecond)) .. (MaxInstant + MaxDuration * TicksPerSecond)
TagNames == {"a", "b"}
\* the first MaxTags of the names below
TagPool == { <<"a", "b", "c", "d", "e", "f">>[i] : i \in 1 .. MaxTags }

(***************************************************************************)
(* time.Time and pointers to it.                                           *)
(***************************************************************************)
Nil == << >>
Ptr(t) == << t >>
Deref(p) == p[1]

\* t.Unix(): the whole seconds since the epoch, rounded down
Unix(t) == t \div TicksPerSecond
\* t.Add(time.Duration(d) * time.Second)
AddSeconds(t, d) == t + d * TicksPerSecond
\* Go's integer division, which truncates toward zero
GoDiv(a, b) == IF a >= 0 THEN a \div b ELSE -((-a) \div b)
\* int64(t.Sub(u) / time.Second)
SubSeconds(t, u) == GoDiv(t - u, TicksPerSecond)
\* t.Local().Format("2006-01-02"): the local calendar day of t
LocalDay(t) == (t + ZoneOffset * TicksPerSecond) \div (SecondsPerDay * TicksPerSecond)

(***************************************************************************)
(* TimeEntry.                                                              *)
(***************************************************************************)
\* TimeEntry{}: the zero value
ZeroEntry ==
  [Wid |-> 0, ID |-> 0, Pid |-> 0, Tid |-> 0, Description |-> "",
   Stop |-> Nil, Start |-> Nil, Tags |-> << >>, Duration |-> 0,
   DurOnly |-> FALSE, Billable |-> 0]

\* a variant: running judged by the stop being absent as well
IsRunningNoStop(en) == en.Duration < 0 /\ en.Stop = Nil

IsRunning(en) == en.Duration < 0

\* the index of tag in tags (from 1), or 0 where the code returns -1
RECURSIVE indexFrom(_, _, _)
indexFrom(tag, tags, i) ==
  IF i > Len(tags) THEN 0
  ELSE IF tags[i] = tag THEN i
  ELSE indexFrom(tag, tags, i + 1)

\* a variant: the search starts after the first tag
indexAfterFirst(tag, tags) == indexFrom(tag, tags, 2)

indexOfTag(tag, tags) == indexFrom(tag, tags, 1)

HasTag(en, tag) == indexOfTag(tag, en.Tags) # 0

(***************************************************************************)
(* State.                                                                  *)
(***************************************************************************)
VARIABLES
  e,        \* the caller's TimeEntry
  outcome,  \* how the last call ended: "none", "ok", "error" (returned), "panic"
  clock,    \* the wall clock, time.Now(), in ticks
  remote,   \* the entries the service holds: id -> <<>> or <<entry>>
  pc,       \* the position of the gateway operation in progress
  calls,    \* the requests the gateway operation has sent, in order
  ret,      \* what the gateway operation returns: [entry, err]
  mem,      \* the memory behind an entry and its copy (followed in SpecCopy)
  wire      \* the bytes of an entry received and to be decoded (SpecDecode)

vars == << e, outcome, clock, remote, pc, calls, ret, mem, wire >>

gateway == << remote, pc, calls, ret >>

\* the entries the service hands out: stopped with duration = stop - start, or
\* running with no stop and the start's epoch seconds in the negated duration
StoppedEntries ==
  { [ZeroEntry EXCEPT !.Wid = 1, !.ID = 1, !.Pid = 2, !.Tid = 3,
                      !.Description = "work", !.Billable = 1,
                      !.Start = Ptr(s), !.Stop = Ptr(t),
                      !.Duration = (t - s) \div TicksPerSecond,
                      !.Tags = tg] :
      s \in Instants, t \in Instants, tg \in {<< >>, <<"a">>} }

RunningEntries ==
  { [ZeroEntry EXCEPT !.Wid = 1, !.ID = 1, !.Pid = 2, !.Tid = 3,
                      !.Description = "work", !.Billable = 1,
                      !.Start = Ptr(s), !.Duration = -Unix(s),
                      !.Tags = tg] :
      s \in Instants, tg \in {<< >>, <<"a">>} }

NoReturn == [entry |-> ZeroEntry, err |-> "none"]

\* a []string as memory holds it: its backing array (0 for a nil slice) and its
\* length; its capacity is the length of the backing array
NilSlice == [arr |-> 0, len |-> 0]

\* a TimeEntry as memory holds it: Tags a slice, Start and Stop the addresses
\* of time.Time variables (0 for nil)
ZeroStruct ==
  [Wid |-> 0, ID |-> 0, Pid |-> 0, Tid |-> 0, Description |-> "",
   Stop |-> 0, Start |-> 0, Tags |-> NilSlice, Duration |-> 0,
   DurOnly |-> FALSE, Billable |-> 0]

\* nothing received: the bytes of the empty JSON object {}
NoWire ==
  [syntax |-> TRUE,
   keys |-> [wid |-> << >>, id |-> << >>, pid |-> << >>, tid |-> << >>,
             description |-> << >>, stop |-> << >>, start |-> << >>,
             tags |-> << >>, duration |-> << >>, duronly |-> << >>,
             billable |-> << >>, created_with |-> << >>]]

\* no memory followed: no backing array, no time.Time variable, e and c zero
NoMemory ==
  [arrays |-> << >>, cells |-> << >>, e |-> ZeroStruct, c |-> ZeroStruct,
   copied |-> FALSE, n |-> 0]

Init ==
  /\ e \in { en \in StoppedEntries : Deref(en.Start) <= Deref(en.Stop) }
           \cup { en \in RunningEntries : IsRunning(en) }
  /\ outcome = "none"
  /\ clock \in Clock
  /\ remote = [i \in 1 .. MaxID |-> IF i = e.ID THEN << e >> ELSE << >>]
  /\ pc = "idle"
  /\ calls = << >>
  /\ ret = NoReturn
  /\ mem = NoMemory
  /\ wire = NoWire

(***************************************************************************)
(* The mutators of TimeEntry.  A call that dereferences a nil Start or     *)
(* Stop panics: the assignments made before the dereference stand and      *)
(* nothing runs after it.                                                  *)
(***************************************************************************)
CanCall == pc = "idle" /\ outcome # "panic"

AddTag(tag) ==
  /\ CanCall
  /\ e' = IF ~HasTag(e, tag) THEN [e EXCEPT !.Tags = Append(e.Tags, tag)] ELSE e
  /\ outcome' = "ok"
  /\ UNCHANGED << clock, gateway, mem, wire >>

RemoveTag(tag) ==
  /\ CanCall
  /\ LET i == indexOfTag(tag, e.Tags) IN
       e' = IF i # 0
            THEN [e EXCEPT !.Tags = SubSeq(e.Tags, 1, i - 1) \o SubSeq(e.Tags, i + 1, Len(e.Tags))]
            ELSE e
  /\ outcome' = "ok"
  /\ UNCHANGED << clock, gateway, mem, wire >>

SetDuration(duration) ==
  /\ CanCall
  /\ IF IsRunning(e)
     THEN e' = e /\ outcome' = "error"
     ELSE IF e.Start = Nil
     THEN e' = [e EXCEPT !.Duration = duration] /\ outcome' = "panic"
     ELSE /\ e' = [e EXCEPT !.Duration = duration,
                            !.Stop = Ptr(AddSeconds(Deref(e.Start), duration))]
          /\ outcome' = "ok"
  /\ UNCHANGED << clock, gateway, mem, wire >>

SetStartTime(start, updateEnd) ==
  /\ CanCall
  /\ IF IsRunning(e)
     THEN e' = [e EXCEPT !.Start = Ptr(start)] /\ outcome' = "ok"
     ELSE IF updateEnd
     THEN /\ AddSeconds(start, e.Duration) \in StopRange
          /\ e' = [e EXCEPT !.Start = Ptr(start),
                            !.Stop = Ptr(AddSeconds(start, e.Duration))]
          /\ outcome' = "ok"
     ELSE IF e.Stop = Nil
     THEN e' = [e EXCEPT !.Start = Ptr(start)] /\ outcome' = "panic"
     ELSE /\ e' = [e EXCEPT !.Start = Ptr(start),
                            !.Duration = Unix(Deref(e.Stop)) - Unix(start)]
          /\ outcome' = "ok"
  /\ UNCHANGED << clock, gateway, mem, wire >>

SetStopTime(stop) ==
  /\ CanCall
  /\ IF IsRunning(e)
     THEN e' = e /\ outcome' = "error"
     ELSE IF e.Start = Nil
     THEN e' = [e EXCEPT !.Stop = Ptr(stop)] /\ outcome' = "panic"
     ELSE /\ e' = [e EXCEPT !.Stop = Ptr(stop),
                            !.Duration = SubSeconds(stop, Deref(e.Start))]
          /\ outcome' = "ok"
  /\ UNCHANGED << clock, gateway, mem, wire >>

\* time passes
Tick ==
  /\ CanCall
  /\ clock < MaxClock
  /\ clock' = clock + 1
  /\ UNCHANGED << e, outcome, gateway, mem, wire >>

Mutate ==
  \/ \E tag \in TagNames : AddTag(tag)
  \/ \E tag \in TagNames : RemoveTag(tag)
  \/ \E d \in Durations : SetDuration(d)
  \/ \E t \in Instants, u \in BOOLEAN : SetStartTime(t, u)
  \/ \E t \in Instants : SetStopTime(t)

(***************************************************************************)
(* The wire.  A request is [method, path, id, body]; a JSON body is a      *)
(* record of optional fields, <<>> for a key the body does not carry.      *)
(***************************************************************************)
AppName == "go-toggl"

NoBody ==
  [wid |-> << >>, id |-> << >>, pid |-> << >>, tid |-> << >>,
   description |-> << >>, stop |-> << >>, start |-> << >>, tags |-> << >>,
   duration |-> << >>, duronly |-> << >>, billable |-> << >>,
   created_with |-> << >>]

\* json.Marshal of a TimeEntry: the omitempty keys are left out at their zero value
Marshal(en) ==
  [NoBody EXCEPT
     !.wid = IF en.Wid = 0 THEN << >> ELSE << en.Wid >>,
     !.id = IF en.ID = 0 THEN << >> ELSE << en.ID >>,
     !.pid = << en.Pid >>,
     !.tid = << en.Tid >>,
     !.description = IF en.Description = "" THEN << >> ELSE << en.Description >>,
     !.stop = en.Stop,
     !.start = en.Start,
     !.tags = << en.Tags >>,
     !.duration = IF en.Duration = 0 THEN << >> ELSE << en.Duration >>,
     !.duronly = << en.DurOnly >>,
     !.billable = << en.Billable >>]

\* the body both ContinueTimeEntry and UnstopTimeEntry post to /time_entries/start
StartBody(timer, duronly) ==
  [NoBody EXCEPT
     !.description = << timer.Description >>,
     !.pid = << timer.Pid >>,
     !.tid = << timer.Tid >>,
     !.billable = << timer.Billable >>,
     !.created_with = << AppName >>,
     !.tags = << timer.Tags >>,
     !.duronly = << duronly >>]

\* Copy: the fields one by one, the tags in a slice of their own
Copy(en) ==
  [Wid |-> en.Wid, ID |-> en.ID, Pid |-> en.Pid, Tid |-> en.Tid,
   Description |-> en.Description, Stop |-> en.Stop, Start |-> en.Start,
   Tags |-> [i \in 1 .. Len(en.Tags) |-> en.Tags[i]],
   Duration |-> en.Duration, DurOnly |-> en.DurOnly, Billable |-> en.Billable]

(***************************************************************************)
(* The remote service, seen through Session.request: a request comes back  *)
(* "ok" (handled, status 2xx/3xx, a body that decodes or one that does     *)
(* not), "rejected" (not handled: the connection failed or the status is   *)
(* an error) or "lost" (handled, but reading the response failed).         *)
(***************************************************************************)
Responses ==
  { [status |-> "ok", valid |-> TRUE], [status |-> "ok", valid |-> FALSE],
    [status |-> "rejected", valid |-> FALSE], [status |-> "lost", valid |-> FALSE] }

Handled(r) == r.status \in {"ok", "lost"}

IDs == 1 .. MaxID

Exists(id) == id \in IDs /\ remote[id] # << >>

FreshID == CHOOSE i \in IDs : remote[i] = << >>

Opt(field, default) == IF field = << >> THEN default ELSE field[1]

\* the entry the service starts for a POST /time_entries/start: running from now
Started(body) ==
  [Wid |-> 1, ID |-> FreshID, Pid |-> Opt(body.pid, 0), Tid |-> Opt(body.tid, 0),
   Description |-> Opt(body.description, ""), Stop |-> Nil, Start |-> Ptr(clock),
   Tags |-> Opt(body.tags, << >>), Duration |-> -Unix(clock),
   DurOnly |-> Opt(body.duronly, FALSE), Billable |-> Opt(body.billable, 0)]

\* the entry the service keeps after an update: the keys the body carries replace its own
Updated(old, body) ==
  [Wid |-> Opt(body.wid, old.Wid), ID |-> old.ID, Pid |-> Opt(body.pid, old.Pid),
   Tid |-> Opt(body.tid, old.Tid),
   Description |-> Opt(body.description, old.Description),
   Stop |-> IF body.stop = << >> THEN old.Stop ELSE body.stop,
   Start |-> IF body.start = << >> THEN old.Start ELSE body.start,
   Tags |-> Opt(body.tags, old.Tags), Duration |-> Opt(body.duration, old.Duration),
   DurOnly |-> Opt(body.duronly, old.DurOnly),
   Billable |-> Opt(body.billable, old.Billable)]

\* what the service holds once it has handled the request
Serve(call) ==
  IF call.path = "/time_entries/start"
  THEN [remote EXCEPT ![FreshID] = << Started(call.body) >>]
  ELSE IF call.method = "DELETE"
  THEN [remote EXCEPT ![call.id] = << >>]
  ELSE [remote EXCEPT ![call.id] = << Updated(remote[call.id][1], call.body) >>]

\* the service handles a request for an id only when it holds that id
Answers(call) ==
  IF call.path = "/time_entries/start"
  THEN IF \E i \in IDs : remote[i] = << >> THEN Responses
       ELSE { r \in Responses : ~Handled(r) }
  ELSE IF Exists(call.id) THEN Responses
  ELSE { r \in Responses : ~Handled(r) }

\* the entry in the "data" of the response to the request
Data(call) ==
  IF call.path = "/time_entries/start" THEN Started(call.body)
  ELSE IF call.method = "DELETE" THEN ZeroEntry
  ELSE Updated(remote[call.id][1], call.body)

\* Session.request, as post, put and delete use it
request(call, r) ==
  [remote |-> IF Handled(r) THEN Serve(call) ELSE remote,
   data |-> IF r.status = "ok" /\ r.valid THEN << Data(call) >> ELSE << >>,
   err |-> IF r.status = "ok" THEN "nil" ELSE "transport"]

\* timeEntryRequest(data, err)
timeEntryRequest(data, err) ==
  IF err # "nil" THEN [entry |-> ZeroEntry, err |-> err]
  ELSE IF data = << >> THEN [entry |-> ZeroEntry, err |-> "decode"]
  ELSE [entry |-> data[1], err |-> "nil"]

\* the request UpdateTimeEntry posts
UpdateTimeEntry(timer) ==
  [method |-> "POST", path |-> "/time_entries/%v", id |-> timer.ID,
   body |-> Marshal(timer)]

\* the request DeleteTimeEntry sends
DeleteTimeEntry(timer) ==
  [method |-> "DELETE", path |-> "/time_entries/%v", id |-> timer.ID,
   body |-> NoBody]

(***************************************************************************)
(* The log of a gateway operation: each request it sent, with what the     *)
(* service did with it (status) and what the caller got back (err: "nil",  *)
(* "transport" for a failed request, "decode" for a body that did not      *)
(* decode).                                                                *)
(***************************************************************************)
Logged(call, r, err) ==
  [method |-> call.method, path |-> call.path, id |-> call.id, body |-> call.body,
   status |-> r.status, err |-> err]

(***************************************************************************)
(* ContinueTimeEntry(e, duronly): one request, then the decode.            *)
(***************************************************************************)
\* a variant: the day alone decides
SameDayAnyMode(timer, duronly) ==
  LocalDay(clock) = LocalDay(Deref(timer.Start))

\* the branch condition: a duration-only continuation of a timer of today
SameDay(timer, duronly) ==
  duronly /\ LocalDay(clock) = LocalDay(Deref(timer.Start))

\* a variant: the duration counted from now alone
ContinuedFromNow(timer, now) ==
  [Copy(timer) EXCEPT !.Duration = -Unix(now), !.DurOnly = TRUE]

\* the entry the first branch submits; now is its second reading of the clock
Continued(timer, now) ==
  [Copy(timer) EXCEPT !.Duration = -(Unix(now) - timer.Duration), !.DurOnly = TRUE]

\* the request ContinueTimeEntry sends
ContinueRequest(timer, duronly, now) ==
  IF SameDay(timer, duronly)
  THEN [method |-> "PUT", path |-> "/time_entries/%d", id |-> timer.ID,
        body |-> Marshal(Continued(timer, now))]
  ELSE [method |-> "POST", path |-> "/time_entries/start", id |-> 0,
        body |-> StartBody(timer, duronly)]

ContinueTimeEntry(duronly, late, r) ==
  /\ CanCall
  /\ clock + late <= MaxClock
  /\ IF duronly /\ e.Start = Nil
     THEN outcome' = "panic" /\ UNCHANGED << e, clock, gateway, mem, wire >>
     ELSE /\ late = 0 \/ SameDay(e, duronly)
          /\ LET call == ContinueRequest(e, duronly, clock + late)
                 resp == request(call, r)
                 got == timeEntryRequest(resp.data, resp.err)
             IN /\ r \in Answers(call)
                /\ calls' = << Logged(call, r, got.err) >>
                /\ remote' = resp.remote
                /\ ret' = got
          /\ clock' = clock + late
          /\ pc' = "continued"
          /\ UNCHANGED << e, outcome, mem, wire >>

(***************************************************************************)
(* UnstopTimeEntry(e): start a new entry, give it the start of e, delete e.*)
(* pc is "update" before the update is sent, "delete" before the delete,   *)
(* "unstopped" once the call has returned.                                 *)
(***************************************************************************)
\* a variant: the new entry keeps the start the service gave it
RestartedNow(newEntry, timer) == newEntry

\* newEntry.Start = timer.Start
Restarted(newEntry, timer) == [newEntry EXCEPT !.Start = timer.Start]

\* a variant: the delete follows the update whatever it returned
AfterUpdateAlways(err) == "delete"

\* where UnstopTimeEntry goes after the update: on to the delete, or out
AfterUpdate(err) == IF err # "nil" THEN "unstopped" ELSE "delete"

\* a variant: the error of the delete is dropped
AfterDeleteSilent(old, err) == old

\* the error UnstopTimeEntry returns after the delete
AfterDelete(old, err) == IF err # "nil" THEN "Old entry not deleted" ELSE old

UnstopStart(r) ==
  /\ CanCall
  /\ LET call == [method |-> "POST", path |-> "/time_entries/start", id |-> 0,
                  body |-> StartBody(e, e.DurOnly)]
         resp == request(call, r)
         got == timeEntryRequest(resp.data, resp.err)
     IN /\ r \in Answers(call)
        /\ calls' = << Logged(call, r, got.err) >>
        /\ remote' = resp.remote
        /\ IF resp.err # "nil"
           THEN /\ ret' = [entry |-> ZeroEntry, err |-> "New entry not started"]
                /\ pc' = "unstopped"
           ELSE IF got.err # "nil"
           THEN /\ ret' = [entry |-> got.entry, err |-> "New entry not valid"]
                /\ pc' = "unstopped"
           ELSE /\ ret' = [entry |-> Restarted(got.entry, e), err |-> "nil"]
                /\ pc' = "update"
  /\ UNCHANGED << e, outcome, clock, mem, wire >>

UnstopUpdate(r) ==
  /\ pc = "update"
  /\ LET call == UpdateTimeEntry(ret.entry)
         resp == request(call, r)
         got == timeEntryRequest(resp.data, resp.err)
     IN /\ r \in Answers(call)
        /\ calls' = Append(calls, Logged(call, r, got.err))
        /\ remote' = resp.remote
        /\ ret' = [ret EXCEPT !.err = IF got.err # "nil" THEN "New entry not updated"
                                      ELSE "nil"]
        /\ pc' = AfterUpdate(got.err)
  /\ UNCHANGED << e, outcome, clock, mem, wire >>

UnstopDelete(r) ==
  /\ pc = "delete"
  /\ LET call == DeleteTimeEntry(e)
         resp == request(call, r)
     IN /\ r \in Answers(call)
        /\ calls' = Append(calls, Logged(call, r, resp.err))
        /\ remote' = resp.remote
        /\ ret' = [ret EXCEPT !.err = AfterDelete(ret.err, resp.err)]
        /\ pc' = "unstopped"
  /\ UNCHANGED << e, outcome, clock, mem, wire >>

Next ==
  \/ Mutate
  \/ Tick
  \/ \E duronly \in BOOLEAN, late \in 0 .. 1, r \in Responses :
       ContinueTimeEntry(duronly, late, r)
  \/ \E r \in Responses : UnstopStart(r)
  \/ \E r \in Responses : UnstopUpdate(r)
  \/ \E r \in Responses : UnstopDelete(r)

Spec == Init /\ [][Next]_vars

(***************************************************************************)
(* The tags alone: any sequence of AddTag and RemoveTag calls, over more   *)
(* tag names than the lifecycle above follows.                             *)
(***************************************************************************)
NextTags ==
  \/ \E tag \in TagPool : AddTag(tag)
  \/ \E tag \in TagPool : RemoveTag(tag)

SpecTags == Init /\ [][NextTags]_vars

(***************************************************************************)
(* An entry e and its copy c in memory.  Tags are slices over backing      *)
(* arrays, which two slices may share; Start and Stop are addresses of     *)
(* time.Time variables, which two entries may share.  mem.arrays and       *)
(* mem.cells hold what was allocated, in the order of allocation.          *)
(***************************************************************************)
Other(x) == IF x = "e" THEN "c" ELSE "e"

\* cap(s)
Cap(m, s) == IF s.arr = 0 THEN 0 ELSE Len(m.arrays[s.arr])

\* the elements of the slice s
Elems(m, s) == [i \in 1 .. s.len |-> m.arrays[s.arr][i]]

\* *p, or nil
At(m, p) == IF p = 0 THEN Nil ELSE Ptr(m.cells[p])

\* the entry x as a caller reads it: its fields, the tags and instants by value
Value(m, x) ==
  [Wid |-> m[x].Wid, ID |-> m[x].ID, Pid |-> m[x].Pid, Tid |-> m[x].Tid,
   Description |-> m[x].Description, Stop |-> At(m, m[x].Stop),
   Start |-> At(m, m[x].Start), Tags |-> Elems(m, m[x].Tags),
   Duration |-> m[x].Duration, DurOnly |-> m[x].DurOnly,
   Billable |-> m[x].Billable]

\* the memory holding the entry en as e, its tags with spare capacity
Image(en, spare) ==
  LET cap == Len(en.Tags) + spare
      times == IF en.Start = Nil THEN en.Stop ELSE en.Start \o en.Stop
  IN [arrays |-> IF cap = 0 THEN << >>
                 ELSE << [i \in 1 .. cap |-> IF i <= Len(en.Tags) THEN en.Tags[i] ELSE ""] >>,
      cells |-> times,
      e |-> [Wid |-> en.Wid, ID |-> en.ID, Pid |-> en.Pid, Tid |-> en.Tid,
             Description |-> en.Description,
             Stop |-> IF en.Stop = Nil THEN 0 ELSE Len(times),
             Start |-> IF en.Start = Nil THEN 0 ELSE 1,
             Tags |-> IF cap = 0 THEN NilSlice ELSE [arr |-> 1, len |-> Len(en.Tags)],
             Duration |-> en.Duration, DurOnly |-> en.DurOnly,
             Billable |-> en.Billable],
      c |-> ZeroStruct, copied |-> FALSE, n |-> 0]

\* the capacity append gives the array it allocates for one more element
GrowCap(cap) == IF cap = 0 THEN 1 ELSE 2 * cap

\* x.Tags = append(x.Tags, tag): in place where the capacity allows, in a
\* new array otherwise
AppendTag(m, x, tag) ==
  LET s == m[x].Tags IN
    IF s.len < Cap(m, s)
    THEN [m EXCEPT !.arrays[s.arr][s.len + 1] = tag, ![x].Tags.len = s.len + 1]
    ELSE [m EXCEPT
            !.arrays = Append(@, [i \in 1 .. GrowCap(s.len) |->
                                    IF i <= s.len THEN m.arrays[s.arr][i]
                                    ELSE IF i = s.len + 1 THEN tag ELSE ""]),
            ![x].Tags = [arr |-> Len(m.arrays) + 1, len |-> s.len + 1]]

\* x.Tags = append(x.Tags[:i], x.Tags[i+1:]...), k the place of the tag from 1:
\* the later elements move down one place in the same array
RemoveAt(m, x, k) ==
  LET s == m[x].Tags
      old == m.arrays[s.arr]
  IN [m EXCEPT !.arrays[s.arr] = [i \in 1 .. Len(old) |->
                                    IF k <= i /\ i < s.len THEN old[i + 1] ELSE old[i]],
               ![x].Tags.len = s.len - 1]

\* x.F = &t for a variable t of its own, F being Start or Stop
PointAt(m, x, F, t) ==
  [m EXCEPT !.cells = Append(@, t), ![x][F] = Len(m.cells) + 1]

\* a variant: newEntry := *e alone, the tags left in the slice of e
CopyStruct(m) == [m EXCEPT !.c = m.e, !.copied = TRUE]

\* c = e.Copy(): the struct, then tags in an array of their own; &(*e.Start)
\* is e.Start, so c and e point at the same time.Time variables
CopyOf(m) ==
  LET n == m.e.Tags.len IN
    [m EXCEPT !.c = [m.e EXCEPT !.Tags = [arr |-> Len(m.arrays) + 1, len |-> n]],
              !.arrays = Append(@, Elems(m, m.e.Tags)),
              !.copied = TRUE]

\* the mutators may be called on e, and on c once it exists
CanCallOn(x) ==
  /\ outcome # "panic"
  /\ mem.n < MaxCalls
  /\ x = "c" => mem.copied

\* the next call
Called(m) == [m EXCEPT !.n = @ + 1]

CopyEntry ==
  /\ outcome # "panic"
  /\ ~mem.copied
  /\ mem' = CopyOf(mem)
  /\ outcome' = "ok"
  /\ UNCHANGED << e, clock, gateway, wire >>

AddTagOn(x, tag) ==
  /\ CanCallOn(x)
  /\ mem' = Called(IF indexOfTag(tag, Elems(mem, mem[x].Tags)) = 0
                   THEN AppendTag(mem, x, tag) ELSE mem)
  /\ outcome' = "ok"
  /\ UNCHANGED << e, clock, gateway, wire >>

RemoveTagOn(x, tag) ==
  /\ CanCallOn(x)
  /\ LET i == indexOfTag(tag, Elems(mem, mem[x].Tags)) IN
       mem' = Called(IF i # 0 THEN RemoveAt(mem, x, i) ELSE mem)
  /\ outcome' = "ok"
  /\ UNCHANGED << e, clock, gateway, wire >>

SetDurationOn(x, duration) ==
  /\ CanCallOn(x)
  /\ IF mem[x].Duration < 0
     THEN mem' = Called(mem) /\ outcome' = "error"
     ELSE IF mem[x].Start = 0
     THEN mem' = Called([mem EXCEPT ![x].Duration = duration]) /\ outcome' = "panic"
     ELSE /\ mem' = Called(PointAt([mem EXCEPT ![x].Duration = duration], x, "Stop",
                                   AddSeconds(mem.cells[mem[x].Start], duration)))
          /\ outcome' = "ok"
  /\ UNCHANGED << e, clock, gateway, wire >>

SetStartTimeOn(x, start, updateEnd) ==
  /\ CanCallOn(x)
  /\ LET m == PointAt(mem, x, "Start", start) IN
       IF m[x].Duration < 0
       THEN mem' = Called(m) /\ outcome' = "ok"
       ELSE IF updateEnd
       THEN /\ mem' = Called(PointAt(m, x, "Stop", AddSeconds(start, m[x].Duration)))
            /\ outcome' = "ok"
       ELSE IF m[x].Stop = 0
       THEN mem' = Called(m) /\ outcome' = "panic"
       ELSE /\ mem' = Called([m EXCEPT ![x].Duration =
                                Unix(m.cells[m[x].Stop]) - Unix(m.cells[m[x].Start])])
            /\ outcome' = "ok"
  /\ UNCHANGED << e, clock, gateway, wire >>

SetStopTimeOn(x, stop) ==
  /\ CanCallOn(x)
  /\ IF mem[x].Duration < 0
     THEN mem' = Called(mem) /\ outcome' = "error"
     ELSE IF mem[x].Start = 0
     THEN mem' = Called(PointAt(mem, x, "Stop", stop)) /\ outcome' = "panic"
     ELSE /\ mem' = Called([PointAt(mem, x, "Stop", stop) EXCEPT ![x].Duration =
                              SubSeconds(stop, mem.cells[mem[x].Start])])
          /\ outcome' = "ok"
  /\ UNCHANGED << e, clock, gateway, wire >>

\* the instants and durations the calls on e and c are made with: the ends of
\* the ranges
EndInstants == {0, MaxInstant}
EndDurations == {-MaxDuration, MaxDuration}

\* a call of a mutator on the entry x
MutateOn(x) ==
  \/ \E tag \in TagNames : AddTagOn(x, tag)
  \/ \E tag \in TagNames : RemoveTagOn(x, tag)
  \/ \E d \in EndDurations : SetDurationOn(x, d)
  \/ \E t \in EndInstants, u \in BOOLEAN : SetStartTimeOn(x, t, u)
  \/ \E t \in EndInstants : SetStopTimeOn(x, t)

\* the entries copied: as the service hands them out, with up to two tags
CopiedEntries ==
  { [en EXCEPT !.Tags = tg] :
      en \in { s \in StoppedEntries :
                 /\ Deref(s.Start) <= Deref(s.Stop)
                 /\ {Deref(s.Start), Deref(s.Stop)} \subseteq EndInstants }
              \cup { r \in RunningEntries :
                       IsRunning(r) /\ Deref(r.Start) \in EndInstants },
      tg \in {<< >>, <<"a">>, <<"a", "b">>} }

InitCopy ==
  /\ e \in CopiedEntries
  /\ outcome = "none"
  /\ clock = MinClock
  /\ remote = [i \in 1 .. MaxID |-> IF i = e.ID THEN << e >> ELSE << >>]
  /\ pc = "idle"
  /\ calls = << >>
  /\ ret = NoReturn
  /\ \E spare \in 0 .. MaxSpare : mem = Image(e, spare)
  /\ wire = NoWire

NextCopy ==
  \/ CopyEntry
  \/ MutateOn("e")
  \/ MutateOn("c")

SpecCopy == InitCopy /\ [][NextCopy]_vars

(***************************************************************************)
(* Decoding an entry from the wire.  A timestamp string is a sequence of   *)
(* tokens: << >> is the empty string, << w, z >> the date and time w (the  *)
(* wall-clock reading, in ticks) followed by the zone suffix z: "Z",       *)
(* "+hh:mm" or "-hh:mm" (ZoneOffset seconds east or west of UTC), or       *)
(* something that is no zone.                                              *)
(***************************************************************************)
Empty == << >>

ZoneSuffixes == {"Z", "+hh:mm", "-hh:mm"}

TimeStrings ==
  {Empty} \cup { << w, z >> : w \in Instants, z \in ZoneSuffixes }
          \cup { << 0, z >> : z \in {"", " UTC"} }

\* parseTime: time.Parse with the layout ending in Z, and on its error
\* time.Parse with the layout ending in -07:00
parseTime(s) ==
  IF Len(s) = 2 /\ s[2] = "Z" THEN [t |-> s[1], err |-> "nil"]
  ELSE IF Len(s) = 2 /\ s[2] = "+hh:mm"
  THEN [t |-> s[1] - ZoneOffset * TicksPerSecond, err |-> "nil"]
  ELSE IF Len(s) = 2 /\ s[2] = "-hh:mm"
  THEN [t |-> s[1] + ZoneOffset * TicksPerSecond, err |-> "nil"]
  ELSE [t |-> 0, err |-> "parse"]

\* the bytes of an entry on the wire: whether they are JSON of the shape of an
\* entry at all, and the keys they carry (<< >> for a key left out)
WireEntries ==
  { [syntax |-> sx,
     keys |-> [NoBody EXCEPT !.wid = << 1 >>, !.id = << 1 >>, !.pid = << 2 >>,
                             !.description = << "work" >>, !.tags = << <<"a">> >>,
                             !.duration = d, !.start = st, !.stop = sp]] :
      sx \in BOOLEAN,
      d \in {<< >>, << -MaxDuration >>, << MaxDuration >>},
      st \in {<< >>} \cup { << x >> : x \in TimeStrings },
      sp \in {<< >>} \cup { << x >> : x \in TimeStrings } }

\* json.Unmarshal(b, &entry) for a tempTimeEntry: the embedded entry takes the
\* keys but start and stop, which go to the strings Start and Stop
tempTimeEntry(b) ==
  [embeddedTimeEntry |->
     [ZeroEntry EXCEPT !.Wid = Opt(b.keys.wid, 0), !.ID = Opt(b.keys.id, 0),
                       !.Pid = Opt(b.keys.pid, 0), !.Tid = Opt(b.keys.tid, 0),
                       !.Description = Opt(b.keys.description, ""),
                       !.Tags = Opt(b.keys.tags, << >>),
                       !.Duration = Opt(b.keys.duration, 0),
                       !.DurOnly = Opt(b.keys.duronly, FALSE),
                       !.Billable = Opt(b.keys.billable, 0)],
   Stop |-> Opt(b.keys.stop, Empty),
   Start |-> Opt(b.keys.start, Empty)]

\* asTimeEntry: the entry as filled when it returns, and the error
asTimeEntry(t) ==
  LET entry == t.embeddedTimeEntry
      start == parseTime(t.Start)
      stop == parseTime(t.Stop)
      started == IF t.Start # Empty THEN [entry EXCEPT !.Start = Ptr(start.t)] ELSE entry
  IN IF t.Start # Empty /\ start.err # "nil" THEN [entry |-> entry, err |-> start.err]
     ELSE IF t.Stop = Empty THEN [entry |-> started, err |-> "nil"]
     ELSE IF stop.err # "nil" THEN [entry |-> started, err |-> stop.err]
     ELSE [entry |-> [started EXCEPT !.Stop = Ptr(stop.t)], err |-> "nil"]

\* a variant: the entry is stored as asTimeEntry left it, whatever the error
UnmarshalPartial(target, b) ==
  IF ~b.syntax THEN [entry |-> target, err |-> "syntax"]
  ELSE asTimeEntry(tempTimeEntry(b))

\* UnmarshalJSON on the entry target: the entry afterwards, and the error
UnmarshalJSON(target, b) ==
  IF ~b.syntax THEN [entry |-> target, err |-> "syntax"]
  ELSE LET te == asTimeEntry(tempTimeEntry(b)) IN
         IF te.err # "nil" THEN [entry |-> target, err |-> te.err]
         ELSE [entry |-> te.entry, err |-> "nil"]

\* json.Unmarshal of a response into struct{Data TimeEntry}: the entry
\* decoded, or nothing
Unmarshal(b) ==
  LET got == UnmarshalJSON(ZeroEntry, b) IN
    IF got.err # "nil" THEN << >> ELSE << got.entry >>

\* json.Unmarshal(wire, &e) on the caller's entry
DecodeEntry ==
  /\ CanCall
  /\ LET got == UnmarshalJSON(e, wire) IN
       /\ e' = got.entry
       /\ outcome' = IF got.err # "nil" THEN "error" ELSE "ok"
  /\ UNCHANGED << clock, gateway, mem, wire >>

\* GetCurrentTimeEntry, the service answering with the bytes wire
GetCurrentTimeEntry(r) ==
  /\ CanCall
  /\ LET call == [method |-> "GET", path |-> "/time_entries/current", id |-> 0,
                  body |-> NoBody]
         err == IF r.status = "ok" THEN "nil" ELSE "transport"
         got == IF err # "nil" THEN [entry |-> ZeroEntry, err |-> err]
                ELSE timeEntryRequest(Unmarshal(wire), err)
     IN /\ calls' = << Logged(call, r, got.err) >>
        /\ ret' = got
  /\ pc' = "current"
  /\ UNCHANGED << e, outcome, clock, remote, mem, wire >>

\* an entry as the caller holds it, and the bytes of an entry received
InitDecode ==
  /\ e \in { en \in StoppedEntries : Deref(en.Start) <= Deref(en.Stop) }
           \cup { en \in RunningEntries : IsRunning(en) }
  /\ outcome = "none"
  /\ clock = MinClock
  /\ remote = [i \in 1 .. MaxID |-> IF i = e.ID THEN << e >> ELSE << >>]
  /\ pc = "idle"
  /\ calls = << >>
  /\ ret = NoReturn
  /\ mem = NoMemory
  /\ wire \in WireEntries

NextDecode ==
  \/ DecodeEntry
  \/ \E r \in Responses : GetCurrentTimeEntry(r)

SpecDecode == InitDecode /\ [][NextDecode]_vars

(***************************************************************************)
(* The time mutators on every entry a TimeEntry value can be: start and    *)
(* stop each present or absent, whatever the duration.                     *)
(***************************************************************************)
AnyEntries ==
  { [ZeroEntry EXCEPT !.Wid = 1, !.ID = 1, !.Pid = 2, !.Tid = 3,
                      !.Description = "work", !.Billable = 1,
                      !.Start = s, !.Stop = t, !.Duration = d] :
      s \in {Nil} \cup { Ptr(i) : i \in Instants },
      t \in {Nil} \cup { Ptr(i) : i \in Instants },
      d \in Durations }

InitAny ==
  /\ e \in AnyEntries
  /\ outcome = "none"
  /\ clock = MinClock
  /\ remote = [i \in 1 .. MaxID |-> IF i = e.ID THEN << e >> ELSE << >>]
  /\ pc = "idle"
  /\ calls = << >>
  /\ ret = NoReturn
  /\ mem = NoMemory
  /\ wire = NoWire

NextAny ==
  \/ \E d \in Durations : SetDuration(d)
  \/ \E t \in Instants, u \in BOOLEAN : SetStartTime(t, u)
  \/ \E t \in Instants : SetStopTime(t)

SpecAny == InitAny /\ [][NextAny]_vars

(***************************************************************************)
(* Properties.                                                             *)
(***************************************************************************)
\* floor(stop - start) in seconds
FloorSeconds(stop, start) == (stop - start) \div TicksPerSecond

\* C1: in every state where the entry is not running, start and stop are
\* present and duration = floor(stop - start) in seconds.  It is stated for the
\* states with start <= stop, where rounding down and truncating agree, so
\* that a violation is one of sub-second instants and not of a negative span.
C1_StoppedDurationIsFloor ==
  (outcome # "panic" /\ ~(e.Duration < 0)) =>
     /\ e.Start # Nil
     /\ e.Stop # Nil
     /\ Deref(e.Start) <= Deref(e.Stop) =>
          e.Duration = FloorSeconds(Deref(e.Stop), Deref(e.Start))

\* C2: stop is present only when the entry is not running: a running entry
\* (duration < 0) has no stop.
C2_RunningHasNoStop ==
  e.Duration < 0 => e.Stop = Nil

\* a running entry carries the epoch seconds of its start in its negated duration
EncodesStart(duration, start) ==
  (duration < 0 /\ start # Nil) => -duration = Unix(Deref(start))

\* an entry as the service hands it out: running with its start encoded, or
\* stopped with duration = stop - start
WellFormed(en) ==
  /\ en.Start # Nil
  /\ IF en.Duration < 0
     THEN EncodesStart(en.Duration, en.Start)
     ELSE en.Stop # Nil /\ en.Duration = FloorSeconds(Deref(en.Stop), Deref(en.Start))

\* C3: a running entry satisfies -duration = Unix(start): given an entry that
\* does, so does the entry after SetStartTime; given a well-formed entry, so
\* does the body ContinueTimeEntry puts in its first branch and the body
\* UnstopTimeEntry sends in its update.
C3_RunningEncodesStart ==
  [][ /\ ( /\ \E t \in Instants, u \in BOOLEAN : SetStartTime(t, u)
           /\ e.Duration < 0
           /\ EncodesStart(e.Duration, e.Start) )
         => EncodesStart(e'.Duration, e'.Start)
      /\ ( /\ WellFormed(e)
           /\ pc = "idle" /\ pc' = "continued"
           /\ calls'[1].method = "PUT" )
         => EncodesStart(Opt(calls'[1].body.duration, 0), calls'[1].body.start)
      /\ ( /\ WellFormed(e)
           /\ pc = "update" /\ pc' # "update" )
         => EncodesStart(Opt(calls'[2].body.duration, 0), calls'[2].body.start)
    ]_vars

\* C4: SetDuration and SetStopTime return an error exactly when duration < 0,
\* whether or not a stop is present; with an error the entry is unchanged, and
\* without one the entry was not running.
C4_ErrorIffRunning ==
  [][ ( /\ pc' = "idle"
        /\ \/ \E d \in Durations : SetDuration(d)
           \/ \E t \in Instants : SetStopTime(t) )
      => /\ (outcome' = "error") <=> (e.Duration < 0)
         /\ outcome' = "error" => e' = e
         /\ outcome' = "ok" => ~(e.Duration < 0)
    ]_vars

\* a running entry that has a stop was refused
C4_Witness ==
  outcome = "error" /\ e.Duration < 0 /\ e.Stop # Nil

\* C5: SetStartTime(newStart, updateEnd) sets start = newStart; on a stopped
\* entry with updateEnd it keeps duration and sets stop = newStart + duration,
\* without updateEnd it keeps stop and sets duration = stop - newStart, the
\* whole seconds of that span as C1 has them (stated for newStart <= stop); on
\* a running entry nothing but start changes.
C5_SetStartTimeEffect ==
  [][ \A t \in Instants, u \in BOOLEAN :
        SetStartTime(t, u) =>
          /\ e'.Start = Ptr(t)
          /\ e'.Tags = e.Tags
          /\ IF e.Duration < 0
             THEN e'.Duration = e.Duration /\ e'.Stop = e.Stop
             ELSE IF u
             THEN /\ e'.Duration = e.Duration
                  /\ e'.Stop = Ptr(t + e.Duration * TicksPerSecond)
             ELSE /\ e'.Stop = e.Stop
                  /\ t <= Deref(e.Stop) =>
                       e'.Duration = FloorSeconds(Deref(e.Stop), t)
    ]_vars

\* the gateway operation in progress or returned is UnstopTimeEntry
Unstopping == pc \in {"update", "delete", "unstopped"}

\* every request among the first n of the log came back without an error
AllOk(n) == \A i \in 1 .. n : calls[i].err = "nil"

\* the shape of UnstopTimeEntry's log: create, update of the new id, delete
\* of the original id, each after the success of the one before
UnstopLog ==
  LET n == Len(calls) IN
    /\ n \in 1 .. 3
    /\ calls[1].method = "POST" /\ calls[1].path = "/time_entries/start"
    /\ n >= 2 => /\ calls[2].method = "POST" /\ calls[2].path = "/time_entries/%v"
                 /\ calls[2].id = ret.entry.ID
                 /\ calls[2].id \notin {0, e.ID}
    /\ n = 3 => /\ calls[3].method = "DELETE" /\ calls[3].path = "/time_entries/%v"
                /\ calls[3].id = e.ID
    /\ AllOk(n - 1)
    /\ pc = "update" => n = 1 /\ AllOk(1)
    /\ pc = "delete" => n = 2 /\ AllOk(2)
    /\ (pc = "unstopped" /\ n < 3) => calls[n].err # "nil"
    /\ n < 3 => Exists(e.ID)

\* C6: UnstopTimeEntry sends create, update of the new entry, delete of the
\* original id, in that order and each at most once; a request is sent only
\* after every earlier one succeeded (so the original is still held remotely
\* when the create or the update fails), the update and the delete go out only
\* with the new id at hand, and nothing is sent after the delete.
C6_UnstopCallOrder ==
  /\ [](Unstopping => UnstopLog)
  /\ [][ Unstopping =>
           /\ Len(calls') >= Len(calls)
           /\ SubSeq(calls', 1, Len(calls)) = calls
           /\ Len(calls') <= Len(calls) + 1
           /\ Len(calls) = 3 => calls' = calls
       ]_vars

\* all three requests went out and succeeded
C6_Witness ==
  pc = "unstopped" /\ Len(calls) = 3 /\ AllOk(3)

\* the delete was sent and came back with an error
DeleteFailed == pc = "unstopped" /\ Len(calls) = 3 /\ calls[3].err # "nil"

\* what C7 says of a failed delete, but for the fate of the original entry
DeleteFailedResult ==
  /\ pc = "unstopped" => (ret.err = "Old entry not deleted" <=> DeleteFailed)
  /\ DeleteFailed =>
       /\ ret.err \notin {"nil", "New entry not started", "New entry not valid",
                          "New entry not updated"}
       /\ ret.entry.ID = calls[2].id
       /\ Exists(ret.entry.ID)
       /\ ret.entry.Start = e.Start

\* C7 as claimed: when create and update succeed and the delete fails, the
\* call returns an error that tells this outcome from every other, with the
\* new entry (the id the create assigned, the start of the original), and the
\* original entry is still held remotely under its old id.
C7_DeleteFailedOriginalKept ==
  /\ DeleteFailedResult
  /\ DeleteFailed => Exists(e.ID)

\* C7 as amended: the same, but the original entry is still held remotely
\* unless the service carried out the delete whose response failed to arrive.
C7_DeleteFailed ==
  /\ DeleteFailedResult
  /\ DeleteFailed => (Exists(e.ID) \/ calls[3].status = "lost")

\* the delete was refused: the new entry and the original are both held
C7_Witness ==
  /\ DeleteFailed
  /\ ret.err = "Old entry not deleted"
  /\ Exists(e.ID) /\ Exists(ret.entry.ID)
  /\ ret.entry.Start = e.Start /\ e.Start # Ptr(clock)

\* C8: UnstopTimeEntry returns no error exactly when create, update and
\* delete all succeeded; then, for a stopped entry, the service holds a
\* running entry under a new id with the start of the original, no longer
\* holds the original id, and the returned entry has the new id and that start.
C8_UnstopSuccess ==
  pc = "unstopped" =>
    /\ ret.err = "nil" <=> (Len(calls) = 3 /\ AllOk(3))
    /\ (ret.err = "nil" /\ ~(e.Duration < 0)) =>
         /\ ret.entry.ID # e.ID
         /\ Exists(ret.entry.ID)
         /\ remote[ret.entry.ID][1].Duration < 0
         /\ remote[ret.entry.ID][1].Start = e.Start
         /\ ~Exists(e.ID)
         /\ ret.entry.Start = e.Start

\* a stopped entry was unstopped, its start not the instant of the call
C8_Witness ==
  /\ pc = "unstopped" /\ ret.err = "nil" /\ ~(e.Duration < 0)
  /\ e.Start # Ptr(clock)
  /\ remote[ret.entry.ID][1].Start = e.Start

\* C9: for an entry with a start, ContinueTimeEntry sends exactly one request:
\* a PUT to the entry's own id if and only if duronly is asked and the start
\* is on the local calendar day of the clock, and otherwise (also with duronly
\* and a start on another day) a POST to /time_entries/start.
C9_ContinueBranch ==
  [][ \A d \in BOOLEAN, late \in 0 .. 1, r \in Responses :
        (pc' = "continued" /\ ContinueTimeEntry(d, late, r) /\ e.Start # Nil) =>
          /\ Len(calls') = 1
          /\ IF d /\ LocalDay(Deref(e.Start)) = LocalDay(clock)
             THEN /\ calls'[1].method = "PUT"
                  /\ calls'[1].path = "/time_entries/%d"
                  /\ calls'[1].id = e.ID
             ELSE /\ calls'[1].method = "POST"
                  /\ calls'[1].path = "/time_entries/start"
                  /\ calls'[1].id = 0
    ]_vars

\* duronly was asked for an entry of another day: a new entry was started
C9_Witness ==
  /\ pc = "continued"
  /\ calls[1].path = "/time_entries/start"
  /\ calls[1].body.duronly = << TRUE >>
  /\ LocalDay(Deref(e.Start)) # LocalDay(clock)

\* C10: in the first branch the body put to the entry's id is the entry with
\* duration = -(now - duration), now the epoch seconds of the clock as the
\* call reads it, and duronly true, every other field as given; for a stopped
\* entry with duration < now that duration is negative, so the service holds
\* the entry as running under the same id; the caller's entry is untouched.
C10_ContinueSameDay ==
  [][ \A late \in 0 .. 1, r \in Responses :
        ( /\ pc' = "continued"
          /\ ContinueTimeEntry(TRUE, late, r)
          /\ e.Start # Nil
          /\ LocalDay(Deref(e.Start)) = LocalDay(clock) ) =>
          LET b == calls'[1].body
              nd == -(Unix(clock') - e.Duration)
          IN /\ calls'[1].method = "PUT" /\ calls'[1].id = e.ID
             /\ Opt(b.duration, 0) = nd
             /\ b.duronly = << TRUE >>
             /\ Opt(b.id, 0) = e.ID
             /\ Opt(b.wid, 0) = e.Wid
             /\ b.pid = << e.Pid >>
             /\ b.tid = << e.Tid >>
             /\ Opt(b.description, "") = e.Description
             /\ b.tags = << e.Tags >>
             /\ b.start = e.Start
             /\ b.stop = e.Stop
             /\ b.billable = << e.Billable >>
             /\ (0 <= e.Duration /\ e.Duration < Unix(clock')) =>
                  /\ b.duration = << nd >> /\ nd < 0
                  /\ Handled(r) => remote'[e.ID][1].Duration < 0
             /\ e' = e
    ]_vars

\* an entry stopped after a second or more was continued in place
C10_Witness ==
  /\ pc = "continued"
  /\ calls[1].method = "PUT"
  /\ e.Duration > 0
  /\ calls[1].body.duration = << -(Unix(clock) - e.Duration) >>
  /\ -(Unix(clock) - e.Duration) < 0

\* no value occurs twice in tags
NoDuplicates(tags) ==
  \A i \in 1 .. Len(tags), j \in 1 .. Len(tags) : tags[i] = tags[j] => i = j

\* the tags other than tag, in their order
Others(tags, tag) == SelectSeq(tags, LAMBDA x : x # tag)

\* C11: from tags without duplicates, tags never hold a duplicate after any
\* sequence of AddTag and RemoveTag; after AddTag(t) HasTag(t) holds, and an
\* AddTag(t) on tags that hold t changes nothing (so twice is as once); after
\* RemoveTag(t) HasTag(t) does not hold, and a RemoveTag(t) on tags without t
\* changes nothing; either call keeps the other tags in their order, adds t
\* last, and touches no other field.
C11_TagsNoDuplicates ==
  /\ [] NoDuplicates(e.Tags)
  /\ [][ \A tag \in TagPool :
           /\ AddTag(tag) =>
                /\ HasTag(e', tag)
                /\ HasTag(e, tag) => e'.Tags = e.Tags
                /\ ~HasTag(e, tag) => e'.Tags = Append(e.Tags, tag)
                /\ Others(e'.Tags, tag) = Others(e.Tags, tag)
                /\ e' = [e EXCEPT !.Tags = e'.Tags]
           /\ RemoveTag(tag) =>
                /\ ~HasTag(e', tag)
                /\ ~HasTag(e, tag) => e'.Tags = e.Tags
                /\ e'.Tags = Others(e.Tags, tag)
                /\ e' = [e EXCEPT !.Tags = e'.Tags]
       ]_vars

\* the entry began with the tag "a" alone (as the service still holds it); two
\* tags were added and "a" removed from before them, and they kept their order
C11_Witness ==
  /\ outcome = "ok"
  /\ remote[e.ID][1].Tags = <<"a">>
  /\ e.Tags = <<"b", "c">>

\* C12: after c = e.Copy(), c equals e field for field (tags by content and
\* order, instants by value) and e is as it was; from then on a call of
\* AddTag, RemoveTag, SetDuration, SetStartTime or SetStopTime on c leaves
\* every field of e as a caller reads it unchanged, and a call on e leaves c
\* unchanged.
C12_CopyIndependent ==
  [][ /\ CopyEntry =>
           /\ Value(mem', "c") = Value(mem', "e")
           /\ Value(mem', "e") = Value(mem, "e")
      /\ \A x \in {"e", "c"} :
           (mem.copied /\ MutateOn(x)) =>
              Value(mem', Other(x)) = Value(mem, Other(x))
    ]_vars

\* e had two tags when copied; since then the second was removed from e and
\* the first from c, each seen in the tags of that entry alone
C12_Witness ==
  /\ mem.copied /\ outcome = "ok"
  /\ Len(e.Tags) = 2
  /\ Value(mem, "e").Tags = << e.Tags[1] >>
  /\ Value(mem, "c").Tags = << e.Tags[2] >>

\* the string is in the first format: date and time, then Z
InFormatZ(s) == s # Empty /\ s[2] = "Z"

\* the string is in the second format: date and time, then a numeric offset
InFormatOffset(s) == s # Empty /\ s[2] \in {"+hh:mm", "-hh:mm"}

\* the string is not empty and in neither format
Malformed(s) == s # Empty /\ ~InFormatZ(s) /\ ~InFormatOffset(s)

\* the instant a string stands for: none for the empty string, the reading
\* itself before Z, the reading less the offset before a numeric offset
InstantOf(s) ==
  IF s = Empty THEN Nil
  ELSE IF InFormatZ(s) THEN Ptr(s[1])
  ELSE IF s[2] = "+hh:mm" THEN Ptr(s[1] - ZoneOffset * TicksPerSecond)
  ELSE Ptr(s[1] + ZoneOffset * TicksPerSecond)

\* the decode of the bytes b fails: they are no JSON entry, or start or stop
\* is a string that is not empty and in neither format
Undecodable(b) ==
  \/ ~b.syntax
  \/ Malformed(Opt(b.keys.start, Empty))
  \/ Malformed(Opt(b.keys.stop, Empty))

\* C13: decoding takes start and stop each in the Z format or, failing that,
\* the numeric-offset format; an empty or omitted string decodes to an absent
\* instant without error; a string that is not empty and in neither format
\* makes the decode fail, and then the target of the decode is unchanged and
\* a gateway operation returns the zero entry with the error.
C13_DecodeFormats ==
  [][ /\ (pc' = "idle" /\ DecodeEntry) =>
           /\ outcome' = "error" <=> Undecodable(wire)
           /\ outcome' = "error" => e' = e
           /\ outcome' = "ok" =>
                /\ e'.Start = InstantOf(Opt(wire.keys.start, Empty))
                /\ e'.Stop = InstantOf(Opt(wire.keys.stop, Empty))
                /\ e'.Duration = Opt(wire.keys.duration, 0)
      /\ \A r \in Responses :
           (pc' = "current" /\ GetCurrentTimeEntry(r)) =>
             /\ ret'.err # "nil" <=> (r.status # "ok" \/ Undecodable(wire))
             /\ ret'.err # "nil" => ret'.entry = ZeroEntry
             /\ ret'.err = "nil" =>
                  /\ ret'.entry.Start = InstantOf(Opt(wire.keys.start, Empty))
                  /\ ret'.entry.Stop = InstantOf(Opt(wire.keys.stop, Empty))
    ]_vars

\* the start came in the numeric-offset format and parsed, the stop came in
\* neither format: the decode failed and left the caller's entry as it was,
\* and GetCurrentTimeEntry returned the zero entry with the error
C13_Witness ==
  /\ outcome = "error" /\ e = remote[e.ID][1]
  /\ wire.syntax
  /\ InFormatOffset(Opt(wire.keys.start, Empty))
  /\ Malformed(Opt(wire.keys.stop, Empty))
  /\ pc = "current" /\ ret.err = "decode" /\ ret.entry = ZeroEntry

\* C14: on every entry, with start and stop each present or absent, a call of
\* SetDuration, SetStartTime or SetStopTime never faults; made on an entry
\* that is not running it returns without error, and the one failure is the
\* error returned for a running entry.
C14_MutatorsNeverFault ==
  [][ /\ outcome' # "panic"
      /\ ~(e.Duration < 0) => outcome' = "ok"
      /\ outcome' = "error" => e.Duration < 0
    ]_vars

====
